---- MODULE Spec2Model ----
(***************************************************************************)
(* Bitwise-Calc: the input form of the calculator (src/src/app.rs) and its *)
(* older copy (src/src/main.rs).  A text is a sequence of characters, each *)
(* a one-character string; a log entry is a string.  Option<T> is a        *)
(* sequence of length at most one.                                         *)
(***************************************************************************)
EXTENDS Integers, Sequences, FiniteSets, TLC

\* ---------------------------------------------------------------- bounds
\* Longest text typed into the input box.
MaxLen == 3
\* Longest log the form is driven to.
MaxMsgs == 4

\* ------------------------------------------------------------- constants
\* i32
I32_MAX == 2147483647
I32_MIN == (-2147483647) - 1

None == <<>>
Some(x) == <<x>>

\* --------------------------------------------------------------- strings
\* The characters typed into the input box.
Chars == {"q", "0", "+", "/", "é"}
\* The characters of the key events: those typed, and the keys of Normal mode.
KeyChars == Chars \cup {"e", "c"}

\* char::len_utf8
len_utf8(c) == IF c = "é" THEN 2 ELSE 1

\* str::len: the length in bytes
RECURSIVE len(_)
len(s) == IF s = <<>> THEN 0 ELSE len_utf8(Head(s)) + len(Tail(s))

\* str::chars().count()
chars_count(s) == Len(s)

\* str::is_char_boundary
is_char_boundary(s, idx) == \E k \in 0..Len(s): len(SubSeq(s, 1, k)) = idx

\* String::insert at a byte index that is a character boundary
insert(s, idx, ch) ==
    LET k == CHOOSE k \in 0..Len(s): len(SubSeq(s, 1, k)) = idx
    IN SubSeq(s, 1, k) \o <<ch>> \o SubSeq(s, k + 1, Len(s))

\* char::is_whitespace
is_whitespace(c) == c \in {" ", "\t"}

RECURSIVE trim_start(_)
trim_start(s) ==
    IF s # <<>> /\ is_whitespace(Head(s)) THEN trim_start(Tail(s)) ELSE s

RECURSIVE trim_end(_)
trim_end(s) ==
    IF s # <<>> /\ is_whitespace(s[Len(s)])
    THEN trim_end(SubSeq(s, 1, Len(s) - 1)) ELSE s

\* str::trim
trim(s) == trim_end(trim_start(s))

UpperCase == <<"A", "B", "C", "D", "E", "F", "G", "H", "I", "J", "K", "L", "M",
               "N", "O", "P", "Q", "R", "S", "T", "U", "V", "W", "X", "Y", "Z">>
LowerCase == <<"a", "b", "c", "d", "e", "f", "g", "h", "i", "j", "k", "l", "m",
               "n", "o", "p", "q", "r", "s", "t", "u", "v", "w", "x", "y", "z">>

\* char::to_lowercase
char_to_lowercase(c) ==
    IF \E i \in 1..26: UpperCase[i] = c
    THEN LowerCase[CHOOSE i \in 1..26: UpperCase[i] = c]
    ELSE IF c = "É" THEN "é" ELSE c

\* str::to_lowercase
to_lowercase(s) == [i \in 1..Len(s) |-> char_to_lowercase(s[i])]

Digits == <<"0", "1", "2", "3", "4", "5", "6", "7", "8", "9">>

\* char::to_digit(10): Some(d) or None
to_digit(c) ==
    IF \E d \in 0..9: Digits[d + 1] = c
    THEN Some(CHOOSE d \in 0..9: Digits[d + 1] = c) ELSE None

\* The digits of str::parse::<i32>, most significant first: checked_mul(10)
\* then checked_add(d) (checked_sub(d) for a negative number); an overflow
\* of either is an Err.
RECURSIVE parse_digits(_, _, _)
parse_digits(s, acc, positive) ==
    IF s = <<>> THEN Some(acc)
    ELSE LET d == to_digit(Head(s)) IN
         IF d = None THEN None
         ELSE IF positive
              THEN IF acc > I32_MAX \div 10 THEN None
                   ELSE IF acc * 10 > I32_MAX - d[1] THEN None
                   ELSE parse_digits(Tail(s), acc * 10 + d[1], positive)
              ELSE IF acc < -(I32_MAX \div 10) THEN None
                   ELSE IF acc * 10 < I32_MIN + d[1] THEN None
                   ELSE parse_digits(Tail(s), acc * 10 - d[1], positive)

\* parse::<i32> taking the empty text for 0
parse_i32_empty_is_zero(s) ==
    IF s = <<>> THEN Some(0)
    ELSE IF Head(s) \in {"+", "-"}
         THEN IF Tail(s) = <<>> THEN None
              ELSE parse_digits(Tail(s), 0, Head(s) = "+")
         ELSE parse_digits(s, 0, TRUE)

\* str::parse::<i32>: Ok(n) is Some(n), every Err is None
parse_i32(s) ==
    IF s = <<>> THEN None
    ELSE IF Head(s) \in {"+", "-"}
         THEN IF Tail(s) = <<>> THEN None
              ELSE parse_digits(Tail(s), 0, Head(s) = "+")
         ELSE parse_digits(s, 0, TRUE)

\* The decimal digits of n <= 0, without a sign.
RECURSIVE fmt_neg(_)
fmt_neg(n) ==
    LET d == (10 - (n % 10)) % 10
        rest == (n + d) \div 10
    IN (IF rest = 0 THEN "" ELSE fmt_neg(rest)) \o Digits[d + 1]

\* <i32 as Display>::fmt, as format!("{n}") writes it
fmt_i32(n) == IF n < 0 THEN "-" \o fmt_neg(n) ELSE fmt_neg(-n)

\* ------------------------------------------------------------ arithmetic
\* What an i32 operation does: it returns val, or it panics.  An overflowing
\* + or - panics in a build with overflow checks and wraps in one without.
Ok(v) == [panic |-> FALSE, val |-> v]
Panic == [panic |-> TRUE, val |-> 0]

\* App::add
add(first, second) ==
    IF second > 0 /\ first > I32_MAX - second
    THEN {Panic, Ok((first - I32_MAX - 1) + (second - I32_MAX - 1))}
    ELSE IF second < 0 /\ first < I32_MIN - second
    THEN {Panic, Ok((first + I32_MAX + 1) + (second + I32_MAX + 1))}
    ELSE {Ok(first + second)}

\* App::subtract
subtract(first, second) ==
    IF second < 0 /\ first > I32_MAX + second
    THEN {Panic, Ok((first - I32_MAX - 1) - (second + I32_MAX + 1))}
    ELSE IF second > 0 /\ first < I32_MIN + second
    THEN {Panic, Ok((first + I32_MAX + 1) - (second - I32_MAX - 1))}
    ELSE {Ok(first - second)}

\* i32 / i32 where it is defined: the quotient rounded toward zero
wrapping_div(first, second) ==
    IF second = I32_MIN THEN (IF first = I32_MIN THEN 1 ELSE 0)
    ELSE LET m == IF second < 0 THEN -second ELSE second
             fl == first \div m
             tr == IF first < 0 /\ first % m # 0 THEN fl + 1 ELSE fl
         IN IF second < 0 THEN -tr ELSE tr

\* App::div: division by zero and i32::MIN / -1 panic in every build
div(first, second) ==
    IF second = 0 \/ (first = I32_MIN /\ second = -1) THEN {Panic}
    ELSE {Ok(wrapping_div(first, second))}

\* ------------------------------------------------------------------- App
\* App::new
new == [input |-> <<>>, first_number |-> None, second_number |-> None,
        operator |-> None, input_mode |-> "Normal", messages |-> <<>>,
        character_index |-> 0, status |-> "running"]

\* clamp_cursor without its upper end
clamp_cursor_no_max(self, new_cursor_pos) ==
    IF new_cursor_pos < 0 THEN 0 ELSE new_cursor_pos

\* App::clamp_cursor
clamp_cursor(self, new_cursor_pos) ==
    LET max == chars_count(self.input) IN
    IF new_cursor_pos < 0 THEN 0
    ELSE IF new_cursor_pos > max THEN max ELSE new_cursor_pos

\* usize::wrapping_sub(1): 0 - 1 is a number above every cursor
wrapping_sub1(n) == IF n = 0 THEN I32_MAX ELSE n - 1

\* usize::saturating_sub(1)
saturating_sub1(n) == IF n = 0 THEN 0 ELSE n - 1

\* usize::saturating_add(1), below usize::MAX
saturating_add1(n) == n + 1

\* move_cursor_left leaving Editing mode at the start of the text
move_cursor_left_leaves_editing(self) ==
    LET cursor_moved_left == saturating_sub1(self.character_index) IN
    [self EXCEPT !.character_index = clamp_cursor(self, cursor_moved_left),
                 !.input_mode = IF self.character_index = 0 THEN "Normal" ELSE @]

\* App::move_cursor_left
move_cursor_left(self) ==
    LET cursor_moved_left == saturating_sub1(self.character_index) IN
    [self EXCEPT !.character_index = clamp_cursor(self, cursor_moved_left)]

\* move_cursor_right with the subtraction of move_cursor_left
move_cursor_right_subtracts(self) ==
    LET cursor_moved_right == saturating_sub1(self.character_index) IN
    [self EXCEPT !.character_index = clamp_cursor(self, cursor_moved_right)]

\* App::move_cursor_right
move_cursor_right(self) ==
    LET cursor_moved_right == saturating_add1(self.character_index) IN
    [self EXCEPT !.character_index = clamp_cursor(self, cursor_moved_right)]

\* byte_index taking the character index for the byte index
byte_index_in_chars(self) ==
    IF self.character_index < chars_count(self.input)
    THEN self.character_index
    ELSE len(self.input)

\* App::byte_index
byte_index(self) ==
    IF self.character_index < chars_count(self.input)
    THEN len(SubSeq(self.input, 1, self.character_index))
    ELSE len(self.input)

\* enter_char leaving the cursor where it was
enter_char_cursor_stays(self, new_char) ==
    LET index == byte_index(self) IN
    IF is_char_boundary(self.input, index)
    THEN [self EXCEPT !.input = insert(@, index, new_char)]
    ELSE [self EXCEPT !.status = "panicked"]

\* App::enter_char; String::insert panics off a character boundary
enter_char(self, new_char) ==
    LET index == byte_index(self) IN
    IF is_char_boundary(self.input, index)
    THEN move_cursor_right([self EXCEPT !.input = insert(@, index, new_char)])
    ELSE [self EXCEPT !.status = "panicked"]

\* Iterator::take
take(s, n) == SubSeq(s, 1, IF n < Len(s) THEN n ELSE Len(s))

\* Iterator::skip
skip(s, n) == SubSeq(s, n + 1, Len(s))

\* delete_char removing the character at the cursor
delete_char_at_cursor(self) ==
    IF self.character_index # 0
    THEN LET current_index == self.character_index
             before_char_to_delete == take(self.input, current_index)
             after_char_to_delete == skip(self.input, current_index + 1)
         IN move_cursor_left(
                [self EXCEPT !.input = before_char_to_delete \o after_char_to_delete])
    ELSE self

\* App::delete_char
delete_char(self) ==
    IF self.character_index # 0
    THEN LET current_index == self.character_index
             from_left_to_current_index == current_index - 1
             before_char_to_delete == take(self.input, from_left_to_current_index)
             after_char_to_delete == skip(self.input, current_index)
         IN move_cursor_left(
                [self EXCEPT !.input = before_char_to_delete \o after_char_to_delete])
    ELSE self

\* reset_cursor moving the cursor one to the left
reset_cursor_one_left(self) ==
    [self EXCEPT !.character_index = saturating_sub1(@)]

\* App::reset_cursor
reset_cursor(self) == [self EXCEPT !.character_index = 0]

\* clear_messages leaving second_number set
clear_messages_keeps_second(self) ==
    [self EXCEPT !.messages = <<>>, !.first_number = None, !.operator = None]

\* clear_messages that empties the log only
clear_messages_log_only(self) == [self EXCEPT !.messages = <<>>]

\* App::clear_messages
clear_messages(self) ==
    [self EXCEPT !.messages = <<>>, !.first_number = None,
                 !.second_number = None, !.operator = None]

\* The text of an operator word.
plus == <<"p", "l", "u", "s">>
minus == <<"m", "i", "n", "u", "s">>
div_word == <<"d", "i", "v">>

\* submit_message, its first part: the pending slot takes the text
submit_slot(self) ==
    IF self.first_number = None
    THEN LET num == parse_i32(trim(self.input)) IN
         IF num # None
         THEN [self EXCEPT !.first_number = Some(num[1]),
                  !.messages = Append(@, "First number entered: " \o fmt_i32(num[1]))]
         ELSE [self EXCEPT
                  !.messages = Append(@, "Invalid input! Please enter a valid first number.")]
    ELSE IF self.second_number = None
    THEN LET num == parse_i32(trim(self.input)) IN
         IF num # None
         THEN [self EXCEPT !.second_number = Some(num[1]),
                  !.messages = Append(@, "Second number entered: " \o fmt_i32(num[1]))]
         ELSE [self EXCEPT
                  !.messages = Append(@, "Invalid input! Please enter a valid second number.")]
    ELSE IF self.operator = None
    THEN LET trimmed_input == to_lowercase(trim(self.input)) IN
         IF trimmed_input \in {<<"+">>, plus} THEN [self EXCEPT !.operator = Some("+")]
         ELSE IF trimmed_input \in {<<"-">>, minus} THEN [self EXCEPT !.operator = Some("-")]
         ELSE IF trimmed_input \in {<<"/">>, div_word} THEN [self EXCEPT !.operator = Some("/")]
         ELSE [self EXCEPT !.messages = Append(@,
                  "Invalid operator! Please enter a valid operator: '+' (plus), '-' (minus), or '/' (div).")]
    ELSE self

\* submit_message, its match on the operator; any other operator is unreachable!()
submit_result(first, second, operator) ==
    IF operator = "+" THEN add(first, second)
    ELSE IF operator = "-" THEN subtract(first, second)
    ELSE IF operator = "/" THEN div(first, second)
    ELSE {Panic}

\* submit_message keeping first_number after the result
submit_message_keeps_first(self) ==
    LET s == submit_slot(self) IN
    IF s.first_number # None /\ s.second_number # None /\ s.operator # None
    THEN LET first == s.first_number[1]
             second == s.second_number[1]
             op == s.operator[1]
         IN { IF result.panic
              THEN [s EXCEPT !.status = "panicked"]
              ELSE reset_cursor(
                     [s EXCEPT !.messages = Append(@,
                                 fmt_i32(first) \o " " \o op \o " " \o
                                 fmt_i32(second) \o " = " \o fmt_i32(result.val)),
                               !.second_number = None,
                               !.operator = None, !.input = <<>>])
              : result \in submit_result(first, second, op) }
    ELSE {reset_cursor([s EXCEPT !.input = <<>>])}

\* submit_message writing the operands of the result entry in the other order
submit_message_swaps_operands(self) ==
    LET s == submit_slot(self) IN
    IF s.first_number # None /\ s.second_number # None /\ s.operator # None
    THEN LET first == s.first_number[1]
             second == s.second_number[1]
             op == s.operator[1]
         IN { IF result.panic
              THEN [s EXCEPT !.status = "panicked"]
              ELSE reset_cursor(
                     [s EXCEPT !.messages = Append(@,
                                 fmt_i32(second) \o " " \o op \o " " \o
                                 fmt_i32(first) \o " = " \o fmt_i32(result.val)),
                               !.first_number = None, !.second_number = None,
                               !.operator = None, !.input = <<>>])
              : result \in submit_result(first, second, op) }
    ELSE {reset_cursor([s EXCEPT !.input = <<>>])}

\* App::submit_message: the states it can leave the App in.  A panic leaves
\* the App as it was when the panic was raised.
submit_message(self) ==
    LET s == submit_slot(self) IN
    IF s.first_number # None /\ s.second_number # None /\ s.operator # None
    THEN LET first == s.first_number[1]
             second == s.second_number[1]
             operator == s.operator[1]
         IN { IF result.panic
              THEN [s EXCEPT !.status = "panicked"]
              ELSE reset_cursor(
                     [s EXCEPT !.messages = Append(@,
                                 fmt_i32(first) \o " " \o operator \o " " \o
                                 fmt_i32(second) \o " = " \o fmt_i32(result.val)),
                               !.first_number = None, !.second_number = None,
                               !.operator = None, !.input = <<>>])
              : result \in submit_result(first, second, operator) }
    ELSE {reset_cursor([s EXCEPT !.input = <<>>])}

\* main.rs, App::submit_message, its first part: neither "/" nor "div"
main_submit_slot(self) ==
    IF self.first_number = None
    THEN LET num == parse_i32(trim(self.input)) IN
         IF num # None
         THEN [self EXCEPT !.first_number = Some(num[1]),
                  !.messages = Append(@, "First number entered: " \o fmt_i32(num[1]))]
         ELSE [self EXCEPT
                  !.messages = Append(@, "Invalid number! Please enter the first number.")]
    ELSE IF self.second_number = None
    THEN LET num == parse_i32(trim(self.input)) IN
         IF num # None
         THEN [self EXCEPT !.second_number = Some(num[1]),
                  !.messages = Append(@, "Second number entered: " \o fmt_i32(num[1]))]
         ELSE [self EXCEPT
                  !.messages = Append(@, "Invalid number! Please enter the second number.")]
    ELSE IF self.operator = None
    THEN LET trimmed_input == to_lowercase(trim(self.input)) IN
         IF trimmed_input = <<"+">> \/ trimmed_input = plus
         THEN [self EXCEPT !.operator = Some("+")]
         ELSE IF trimmed_input = <<"-">> \/ trimmed_input = minus
         THEN [self EXCEPT !.operator = Some("-")]
         ELSE [self EXCEPT !.messages = Append(@,
                  "Invalid operator! Please enter '+' or 'plus', '-' or 'minus'.")]
    ELSE self

\* main.rs, App::submit_message, its match on the operator
main_submit_result(first, second, operator) ==
    IF operator = "+" THEN add(first, second)
    ELSE IF operator = "-" THEN subtract(first, second)
    ELSE {Ok(0)}

\* main.rs, App::submit_message
main_submit_message(self) ==
    LET s == main_submit_slot(self) IN
    IF s.first_number # None /\ s.second_number # None /\ s.operator # None
    THEN LET first == s.first_number[1]
             second == s.second_number[1]
             operator == s.operator[1]
         IN { IF result.panic
              THEN [s EXCEPT !.status = "panicked"]
              ELSE reset_cursor(
                     [s EXCEPT !.messages = Append(@,
                                 fmt_i32(first) \o " " \o operator \o " " \o
                                 fmt_i32(second) \o " = " \o fmt_i32(result.val)),
                               !.first_number = None, !.second_number = None,
                               !.operator = None, !.input = <<>>])
              : result \in main_submit_result(first, second, operator) }
    ELSE {reset_cursor([s EXCEPT !.input = <<>>])}

\* ---------------------------------------------------------------- events
KeyCodes == [k : {"Char"}, c : KeyChars] \cup
            [k : {"Enter", "Backspace", "Left", "Right", "Esc", "Tab"}, c : {""}]
Kinds == {"Press", "Repeat", "Release"}

\* What event::read returns: a key event, or an event that is no key event.
Events == [type : {"Key"}, code : KeyCodes, kind : Kinds] \cup
          {[type |-> "Resize", code |-> [k |-> "", c |-> ""], kind |-> ""]}

Char(c) == [k |-> "Char", c |-> c]
Key(k) == [k |-> k, c |-> ""]
Press(code) == [type |-> "Key", code |-> code, kind |-> "Press"]

\* The arm of Normal mode with Backspace deleting from the buffer
run_normal_backspace(self, code) ==
    IF code = Char("e") THEN {[self EXCEPT !.input_mode = "Editing"]}
    ELSE IF code = Char("q") \/ code = Key("Esc")
         THEN {[self EXCEPT !.status = "exited"]}
    ELSE IF code = Char("c") THEN {clear_messages(self)}
    ELSE IF code = Key("Backspace") THEN {delete_char(self)}
    ELSE {self}

\* App::run, the arm InputMode::Normal: a key of any kind
run_normal(self, code) ==
    IF code = Char("e") THEN {[self EXCEPT !.input_mode = "Editing"]}
    ELSE IF code = Char("q") \/ code = Key("Esc")
         THEN {[self EXCEPT !.status = "exited"]}
    ELSE IF code = Char("c") THEN {clear_messages(self)}
    ELSE {self}

\* The arm of Editing mode with Esc resetting the cursor
run_editing_esc_resets(self, code) ==
    IF code = Key("Enter") THEN submit_message(self)
    ELSE IF code.k = "Char" THEN {enter_char(self, code.c)}
    ELSE IF code = Key("Backspace") THEN {delete_char(self)}
    ELSE IF code = Key("Left") THEN {move_cursor_left(self)}
    ELSE IF code = Key("Right") THEN {move_cursor_right(self)}
    ELSE IF code = Key("Esc") THEN {reset_cursor([self EXCEPT !.input_mode = "Normal"])}
    ELSE {self}

\* App::run, the arm InputMode::Editing if key.kind == KeyEventKind::Press
run_editing(self, code) ==
    IF code = Key("Enter") THEN submit_message(self)
    ELSE IF code.k = "Char" THEN {enter_char(self, code.c)}
    ELSE IF code = Key("Backspace") THEN {delete_char(self)}
    ELSE IF code = Key("Left") THEN {move_cursor_left(self)}
    ELSE IF code = Key("Right") THEN {move_cursor_right(self)}
    ELSE IF code = Key("Esc") THEN {[self EXCEPT !.input_mode = "Normal"]}
    ELSE {self}

\* run acting on a key event of any kind in Editing mode too
run_any_kind(self, ev) ==
    IF ev.type # "Key" THEN {self}
    ELSE IF self.input_mode = "Normal" THEN run_normal(self, ev.code)
    ELSE run_editing(self, ev.code)

\* App::run, one turn of its loop on the event read: the states it can
\* leave the App in.  Drawing reads the App and changes nothing.
run(self, ev) ==
    IF ev.type # "Key" THEN {self}
    ELSE IF self.input_mode = "Normal" THEN run_normal(self, ev.code)
    ELSE IF ev.kind = "Press" THEN run_editing(self, ev.code)
    ELSE {self}

\* ----------------------------------------------------------------- state
VARIABLES input, first_number, second_number, operator, character_index,
          input_mode, messages, status

vars == <<input, first_number, second_number, operator, character_index,
          input_mode, messages, status>>

\* The App of the running program.
app == [input |-> input, first_number |-> first_number,
        second_number |-> second_number, operator |-> operator,
        input_mode |-> input_mode, messages |-> messages,
        character_index |-> character_index, status |-> status]

\* The App becomes s.
Becomes(s) ==
    /\ input' = s.input
    /\ first_number' = s.first_number
    /\ second_number' = s.second_number
    /\ operator' = s.operator
    /\ character_index' = s.character_index
    /\ input_mode' = s.input_mode
    /\ messages' = s.messages
    /\ status' = s.status

\* main: App::new().run(terminal)
Init ==
    /\ input = new.input
    /\ first_number = new.first_number
    /\ second_number = new.second_number
    /\ operator = new.operator
    /\ character_index = new.character_index
    /\ input_mode = new.input_mode
    /\ messages = new.messages
    /\ status = "running"

\* One turn of the loop of App::run on the event ev.
Turn(ev) ==
    /\ status = "running"
    /\ \E s \in run(app, ev): Becomes(s)

KeyEvent(code, kind) == [type |-> "Key", code |-> code, kind |-> kind]

\* Normal mode, KeyCode::Char('e')
NormalEdit ==
    /\ input_mode = "Normal"
    /\ \E kind \in Kinds: Turn(KeyEvent(Char("e"), kind))

\* Normal mode, KeyCode::Char('q') | KeyCode::Esc
NormalQuit ==
    /\ input_mode = "Normal"
    /\ \E code \in {Char("q"), Key("Esc")}, kind \in Kinds: Turn(KeyEvent(code, kind))

\* Normal mode, KeyCode::Char('c')
NormalClear ==
    /\ input_mode = "Normal"
    /\ \E kind \in Kinds: Turn(KeyEvent(Char("c"), kind))

\* Normal mode, any other key
NormalOther ==
    /\ input_mode = "Normal"
    /\ \E code \in KeyCodes \ {Char("e"), Char("q"), Key("Esc"), Char("c")},
          kind \in Kinds: Turn(KeyEvent(code, kind))

\* Editing mode, KeyCode::Enter pressed
EditingEnter ==
    /\ input_mode = "Editing"
    /\ Len(messages) < MaxMsgs
    /\ Turn(Press(Key("Enter")))

\* Editing mode, KeyCode::Char(to_insert) pressed
EditingChar ==
    /\ input_mode = "Editing"
    /\ Len(input) < MaxLen
    /\ \E to_insert \in Chars: Turn(Press(Char(to_insert)))

\* Editing mode, KeyCode::Backspace pressed
EditingBackspace ==
    /\ input_mode = "Editing"
    /\ Turn(Press(Key("Backspace")))

\* Editing mode, KeyCode::Left pressed
EditingLeft ==
    /\ input_mode = "Editing"
    /\ Turn(Press(Key("Left")))

\* Editing mode, KeyCode::Right pressed
EditingRight ==
    /\ input_mode = "Editing"
    /\ Turn(Press(Key("Right")))

\* Editing mode, KeyCode::Esc pressed
EditingEsc ==
    /\ input_mode = "Editing"
    /\ Turn(Press(Key("Esc")))

\* Editing mode, any other key pressed
EditingOther ==
    /\ input_mode = "Editing"
    /\ Turn(Press(Key("Tab")))

\* Editing mode, a key event that is no press
EditingNotPress ==
    /\ input_mode = "Editing"
    /\ \E code \in KeyCodes, kind \in Kinds \ {"Press"}: Turn(KeyEvent(code, kind))

\* An event that is no key event, in either mode
NotKey ==
    \E ev \in Events: ev.type # "Key" /\ Turn(ev)

Next ==
    \/ NormalEdit
    \/ NormalQuit
    \/ NormalClear
    \/ NormalOther
    \/ EditingEnter
    \/ EditingChar
    \/ EditingBackspace
    \/ EditingLeft
    \/ EditingRight
    \/ EditingEsc
    \/ EditingOther
    \/ EditingNotPress
    \/ NotKey

Spec == Init /\ [][Next]_vars

\* --------------------------------------------------------------- main.rs
\* main.rs, App::run: Editing mode, KeyCode::Enter pressed
MainEditingEnter ==
    /\ status = "running"
    /\ input_mode = "Editing"
    /\ Len(messages) < MaxMsgs
    /\ \E s \in main_submit_message(app): Becomes(s)

\* ------------------------------------------------- the form, text by text
\* Operands the form is given: the ends of i32 and numbers between them.
Operands == {I32_MIN, -7, -1, 0, 2, 7, I32_MAX}

\* Texts the form is given.
NumberTexts ==
    {<<"7">>, <<"-", "7">>, <<"+", "7">>, <<" ", "7", "\t">>, <<"0", "0", "7">>,
     <<"-", "0">>,
     <<"2", "1", "4", "7", "4", "8", "3", "6", "4", "7">>,
     <<"-", "2", "1", "4", "7", "4", "8", "3", "6", "4", "8">>}
NotNumberTexts ==
    {<<>>, <<" ">>, <<"7", "é">>, <<"a", "b", "c">>, <<"7", " ", "7">>,
     <<"+", "+", "7">>, <<"7", "-">>, <<"7", ".", "0">>,
     <<"2", "1", "4", "7", "4", "8", "3", "6", "4", "8">>,
     <<"-", "2", "1", "4", "7", "4", "8", "3", "6", "4", "9">>}
PlusTexts == {<<"+">>, plus, <<"P", "L", "U", "S">>, <<" ", "P", "l", "u", "s", " ">>}
MinusTexts == {<<"-">>, minus, <<"M", "i", "n", "u", "s">>, <<"\t", "-", " ">>}
DivTexts == {<<"/">>, div_word, <<"D", "I", "V">>, <<" ", "/">>, <<"d", "i", "V", " ">>}
NotOperatorTexts ==
    {<<"*">>, <<"p">>, <<"d", " ", "i", "v">>, <<"d", "i", "v", "i", "d", "e">>,
     <<"+", "+">>, <<"p", "l", "u", "s", "é">>, <<"÷">>}
Texts == NumberTexts \cup NotNumberTexts \cup PlusTexts \cup MinusTexts
            \cup DivTexts \cup NotOperatorTexts

\* The App in Editing mode, with a text typed, in one of the slots the form
\* reaches: the operands entered are in the log.
InitSubmit ==
    /\ input \in Texts
    /\ character_index \in {0, Len(input)}
    /\ first_number \in {None} \cup {Some(n) : n \in Operands}
    /\ second_number \in {None} \cup {Some(n) : n \in Operands}
    /\ first_number = None => second_number = None
    /\ operator = None
    /\ input_mode = "Editing"
    /\ messages =
          (IF first_number = None THEN <<>>
           ELSE <<"First number entered: " \o fmt_i32(first_number[1])>>) \o
          (IF second_number = None THEN <<>>
           ELSE <<"Second number entered: " \o fmt_i32(second_number[1])>>)
    /\ status = "running"

\* The form of app.rs, given a text in each slot.
SpecSubmit == InitSubmit /\ [][EditingEnter]_vars

\* The form of main.rs, given a text in each slot.
SpecMainRs == InitSubmit /\ [][MainEditingEnter]_vars

\* ================================================================ claims
Last(seq) == seq[Len(seq)]

\* s begins with prefix (both strings).
StartsWith(s, prefix) == Len(s) >= Len(prefix) /\ SubSeq(s, 1, Len(prefix)) = prefix

\* t is an optional sign and then one or more decimal digits.
IsDigitString(t) ==
    t # <<>> /\ \A i \in 1..Len(t): t[i] \in {"0", "1", "2", "3", "4", "5", "6", "7", "8", "9"}
LooksInteger(t) ==
    IF t # <<>> /\ t[1] \in {"+", "-"} THEN IsDigitString(Tail(t)) ELSE IsDigitString(t)

\* The text in the box is no number the form takes / no operator it knows.
FailsNumber == parse_i32(trim(input)) = None \/ ~LooksInteger(trim(input))
FailsOperator ==
    to_lowercase(trim(input)) \notin {<<"+">>, plus, <<"-">>, minus, <<"/">>, div_word}

AwaitingFirst == first_number = None /\ second_number = None /\ operator = None
AwaitingSecond == first_number # None /\ second_number = None /\ operator = None
AwaitingOperator == first_number # None /\ second_number # None /\ operator = None

\* The running program in Editing mode: Enter is a submit.
Editing == status = "running" /\ input_mode = "Editing"
Submit == run(app, Press(Key("Enter")))

\* C1: in every reachable state the cursor is between 0 and the number of
\* characters of the input buffer.
C1_CursorInBounds ==
    0 <= character_index /\ character_index <= chars_count(input)

\* C1: the cursor stands inside a text that holds a two-byte character.
C1_Witness ==
    /\ Len(input) >= 2
    /\ character_index = 1
    /\ \E i \in 1..Len(input): len_utf8(input[i]) = 2

\* The entry of a result: "{first} {operator} {second} = " and the result.
IsResultEntry(m, first, op, second) ==
    StartsWith(m, fmt_i32(first) \o " " \o op \o " " \o fmt_i32(second) \o " = ")

\* The operator the text in the box names.
Named ==
    LET t == to_lowercase(trim(input)) IN
    IF t \in {<<"+">>, plus} THEN "+"
    ELSE IF t \in {<<"-">>, minus} THEN "-" ELSE "/"

\* C2: with the three fields unset, a submit of a valid integer a sets
\* first_number to a and appends "First number entered: a"; the next submit
\* of a valid integer b sets second_number to b and appends "Second number
\* entered: b"; the submit of a recognised operator then appends the entry
\* "a op b = result" and leaves the three fields unset.
C2_Scenario ==
    Editing => \A s \in Submit:
        /\ (AwaitingFirst /\ ~FailsNumber) =>
              /\ s.status = "running"
              /\ s.first_number = parse_i32(trim(input))
              /\ s.second_number = None /\ s.operator = None
              /\ s.messages = Append(messages,
                     "First number entered: " \o fmt_i32(s.first_number[1]))
        /\ (AwaitingSecond /\ ~FailsNumber) =>
              /\ s.status = "running"
              /\ s.first_number = first_number
              /\ s.second_number = parse_i32(trim(input))
              /\ s.operator = None
              /\ s.messages = Append(messages,
                     "Second number entered: " \o fmt_i32(s.second_number[1]))
        /\ (AwaitingOperator /\ ~FailsOperator) =>
              /\ s.status = "running"
              /\ s.first_number = None /\ s.second_number = None /\ s.operator = None
              /\ Len(s.messages) = Len(messages) + 1
              /\ SubSeq(s.messages, 1, Len(messages)) = messages
              /\ IsResultEntry(Last(s.messages), first_number[1], Named, second_number[1])

\* C2, but for a submit that panics.
C2_UnlessPanic ==
    Editing => \A s \in Submit:
        s.status = "running" =>
        /\ (AwaitingFirst /\ ~FailsNumber) =>
              /\ s.first_number = parse_i32(trim(input))
              /\ s.second_number = None /\ s.operator = None
              /\ s.messages = Append(messages,
                     "First number entered: " \o fmt_i32(s.first_number[1]))
        /\ (AwaitingSecond /\ ~FailsNumber) =>
              /\ s.first_number = first_number
              /\ s.second_number = parse_i32(trim(input))
              /\ s.operator = None
              /\ s.messages = Append(messages,
                     "Second number entered: " \o fmt_i32(s.second_number[1]))
        /\ (AwaitingOperator /\ ~FailsOperator) =>
              /\ s.first_number = None /\ s.second_number = None /\ s.operator = None
              /\ Len(s.messages) = Len(messages) + 1
              /\ SubSeq(s.messages, 1, Len(messages)) = messages
              /\ IsResultEntry(Last(s.messages), first_number[1], Named, second_number[1])

\* C3: a submit whose text fails validation leaves first_number,
\* second_number and operator as they were, appends the "Invalid ..." entry
\* of the pending slot, clears the buffer and does not end the program.
C3_RejectedSubmit ==
    Editing => \A s \in Submit:
        /\ (AwaitingFirst /\ FailsNumber) =>
              s = [app EXCEPT !.input = <<>>, !.character_index = 0,
                     !.messages = Append(@,
                        "Invalid input! Please enter a valid first number.")]
        /\ (AwaitingSecond /\ FailsNumber) =>
              s = [app EXCEPT !.input = <<>>, !.character_index = 0,
                     !.messages = Append(@,
                        "Invalid input! Please enter a valid second number.")]
        /\ (AwaitingOperator /\ FailsOperator) =>
              s = [app EXCEPT !.input = <<>>, !.character_index = 0,
                     !.messages = Append(@,
                        "Invalid operator! Please enter a valid operator: '+' (plus), '-' (minus), or '/' (div).")]

\* C3: an operator was rejected and then a second number: the form is in the
\* slot of the operator again, the box is empty.
C3_Witness ==
    /\ status = "running" /\ AwaitingOperator /\ input = <<>>
    /\ Len(messages) >= 3
    /\ StartsWith(Last(messages), "Invalid operator!")
    /\ \E i \in 1..Len(messages):
          messages[i] = "Invalid input! Please enter a valid second number."

\* C4: the submit of "/" or "div" with second_number 0 does not end the
\* program: it adds one entry to the log and leaves the three fields unset.
C4_DivisionByZeroRecovered ==
    (Editing /\ AwaitingOperator /\ second_number = Some(0)
        /\ to_lowercase(trim(input)) \in {<<"/">>, div_word}) =>
    \A s \in Submit:
        /\ s.status = "running"
        /\ Len(s.messages) = Len(messages) + 1
        /\ s.first_number = None /\ s.second_number = None /\ s.operator = None

\* C5: after every submit the input buffer is empty and the cursor is 0.
C5_BoxEmptyAfterSubmit ==
    Editing => \A s \in Submit: s.input = <<>> /\ s.character_index = 0

\* C5, but for a submit that panics.
C5_UnlessPanic ==
    Editing => \A s \in Submit:
        s.status = "running" => s.input = <<>> /\ s.character_index = 0

\* The submit selected the operator op: its result entry is the last of the
\* log, or the computation panicked with op stored.
Selected(op) ==
    IF status' = "panicked" THEN operator' = Some(op)
    ELSE /\ Len(messages') = Len(messages) + 1
         /\ IsResultEntry(Last(messages'), first_number[1], op, second_number[1])

\* C6: with the operator pending, a submit of "+" or "plus" selects +, of
\* "-" or "minus" selects -, of "/" or "div" selects /, the text trimmed and
\* lower-cased; any other text is rejected with the invalid-operator entry
\* and the operator stays unset.
C6_Vocabulary ==
    [][AwaitingOperator =>
        /\ input \in PlusTexts => Selected("+")
        /\ input \in MinusTexts => Selected("-")
        /\ input \in DivTexts => Selected("/")
        /\ input \in Texts \ (PlusTexts \cup MinusTexts \cup DivTexts) =>
              /\ operator' = None
              /\ first_number' = first_number /\ second_number' = second_number
              /\ Len(messages') = Len(messages) + 1
              /\ StartsWith(Last(messages'), "Invalid operator!")]_vars

\* first + second is an i32 / first - second is an i32.
SumFits(first, second) ==
    IF second >= 0 THEN first <= I32_MAX - second ELSE first >= I32_MIN - second
DifferenceFits(first, second) ==
    IF second >= 0 THEN first >= I32_MIN + second ELSE first <= I32_MAX + second

\* The quotient of first by second rounded toward zero, where it is an i32:
\* the quotient of the magnitudes with the sign of the two.
NegAbs(n) == IF n > 0 THEN -n ELSE n
Quotient(first, second) ==
    IF second = 1 THEN first
    ELSE IF second = -1 THEN -first
    ELSE LET magnitude == NegAbs(first) \div NegAbs(second) IN
         IF (first < 0) = (second < 0) THEN magnitude ELSE -magnitude
QuotientFits(first, second) == ~(first = I32_MIN /\ second = -1)

\* The entry "{first} {op} {second} = {result}".
Entry(first, op, second, result) ==
    fmt_i32(first) \o " " \o op \o " " \o fmt_i32(second) \o " = " \o fmt_i32(result)

\* The last entry of the log after the step is the result entry of op.
Recorded(op, fits, result) ==
    /\ status' = "running"
    /\ fits
    /\ Len(messages') = Len(messages) + 1
    /\ Last(messages') = Entry(first_number[1], op, second_number[1], result)

\* C7: for all i32 operands the result recorded in the log entry is
\* first + second for +, first - second for - and, with second not 0, the
\* quotient of first by second rounded toward zero for /.
C7_Arithmetic ==
    [][AwaitingOperator =>
        LET first == first_number[1]
            second == second_number[1]
        IN /\ input \in PlusTexts =>
                 Recorded("+", SumFits(first, second),
                          IF SumFits(first, second) THEN first + second ELSE 0)
           /\ input \in MinusTexts =>
                 Recorded("-", DifferenceFits(first, second),
                          IF DifferenceFits(first, second) THEN first - second ELSE 0)
           /\ (input \in DivTexts /\ second # 0) =>
                 Recorded("/", QuotientFits(first, second),
                          IF QuotientFits(first, second)
                          THEN Quotient(first, second) ELSE 0)]_vars

\* C7, where the result is an i32.
C7_WhereResultFits ==
    [][AwaitingOperator =>
        LET first == first_number[1]
            second == second_number[1]
        IN /\ (input \in PlusTexts /\ SumFits(first, second)) =>
                 Recorded("+", TRUE, first + second)
           /\ (input \in MinusTexts /\ DifferenceFits(first, second)) =>
                 Recorded("-", TRUE, first - second)
           /\ (input \in DivTexts /\ second # 0 /\ QuotientFits(first, second)) =>
                 Recorded("/", TRUE, Quotient(first, second))]_vars

\* C8: clear_messages, from any state, leaves the log empty and
\* first_number, second_number and operator unset, and the mode as it was;
\* 'c' in Normal mode does that.
C8_ClearAll ==
    /\ LET s == clear_messages(app) IN
          /\ s.messages = <<>>
          /\ s.first_number = None /\ s.second_number = None /\ s.operator = None
          /\ s.input_mode = input_mode
    /\ (status = "running" /\ input_mode = "Normal") =>
          \A kind \in Kinds: \A s \in run(app, KeyEvent(Char("c"), kind)):
              /\ s.messages = <<>>
              /\ s.first_number = None /\ s.second_number = None
              /\ s.operator = None
              /\ s.input_mode = "Normal" /\ s.status = "running"

\* C8: Normal mode with both operands entered and a log: 'c' clears them.
C8_Witness ==
    /\ status = "running" /\ input_mode = "Normal"
    /\ AwaitingOperator /\ Len(messages) >= 2
    /\ clear_messages(app) # app

\* C9: in Normal mode 'e' switches to Editing, 'q' and Esc end the program,
\* 'c' is clear_messages, and every other key leaves the whole state as it is.
C9_NormalKeys ==
    (status = "running" /\ input_mode = "Normal") =>
    \A code \in KeyCodes, kind \in Kinds:
        LET after == run(app, KeyEvent(code, kind)) IN
        IF code = Char("e") THEN after = {[app EXCEPT !.input_mode = "Editing"]}
        ELSE IF code \in {Char("q"), Key("Esc")}
             THEN after = {[app EXCEPT !.status = "exited"]}
        ELSE IF code = Char("c")
             THEN after = {[app EXCEPT !.messages = <<>>, !.first_number = None,
                               !.second_number = None, !.operator = None]}
        ELSE after = {app}

\* C9: Normal mode with a text in the box, the cursor behind it, an operand
\* entered and a log: the keys of Editing mode have something to change.
C9_Witness ==
    /\ status = "running" /\ input_mode = "Normal"
    /\ input # <<>> /\ character_index > 0
    /\ first_number # None /\ messages # <<>>

\* C10: Esc in Editing mode switches to Normal mode and changes nothing
\* else, and 'e' then gives back the state Esc was pressed in.
C10_EscKeepsBuffer ==
    Editing =>
        /\ run(app, Press(Key("Esc"))) = {[app EXCEPT !.input_mode = "Normal"]}
        /\ \A s \in run(app, Press(Key("Esc"))), kind \in Kinds:
              run(s, KeyEvent(Char("e"), kind)) = {app}

\* C10: Normal mode holds a text and a cursor behind it, which only Esc in
\* Editing mode leaves there, with an operand entered.
C10_Witness ==
    /\ status = "running" /\ input_mode = "Normal"
    /\ Len(input) >= 2 /\ character_index > 0
    /\ first_number # None

\* C11: in Editing mode a key event that is no press leaves the whole state
\* as it is, whatever its key; in Normal mode a key event does what the
\* press of its key does, whatever its kind.
C11_PressOnly ==
    status = "running" =>
    \A code \in KeyCodes, kind \in Kinds:
        IF input_mode = "Editing"
        THEN kind # "Press" => run(app, KeyEvent(code, kind)) = {app}
        ELSE /\ run(app, KeyEvent(code, kind)) = run(app, Press(code))
             /\ code = Char("e") =>
                   \A s \in run(app, KeyEvent(code, kind)): s.input_mode = "Editing"
             /\ code = Char("q") =>
                   \A s \in run(app, KeyEvent(code, kind)): s.status = "exited"

\* C11: Editing mode with a text and the cursor behind a character of it, an
\* operand entered: a repeat or release of Backspace, Left or Enter would
\* change the state if it were acted on.
C11_Witness ==
    /\ Editing /\ Len(input) >= 2 /\ character_index >= 1
    /\ first_number # None
    /\ run(app, Press(Key("Backspace"))) # {app}
    /\ run(app, KeyEvent(Key("Backspace"), "Repeat")) = {app}

\* The text with ch put in as character number index + 1.
PutIn(text, index, ch) ==
    [i \in 1..(Len(text) + 1) |->
        IF i <= index THEN text[i] ELSE IF i = index + 1 THEN ch ELSE text[i - 1]]

\* C12: enter_char, at any cursor from 0 to the number of characters, makes
\* the text one character longer, puts the new character at the character
\* index of the cursor with the others in their order, and moves the cursor
\* one to the right.
C12_EnterChar ==
    status = "running" =>
    \A new_char \in KeyChars:
        LET s == enter_char(app, new_char) IN
        /\ s.status = "running"
        /\ chars_count(s.input) = chars_count(input) + 1
        /\ s.input = PutIn(input, character_index, new_char)
        /\ s.character_index = character_index + 1
        /\ input_mode = "Editing" => run(app, Press(Char(new_char))) = {s}

\* C12: a text of three characters whose first has two bytes, the cursor
\* behind the second: the characters typed went in at the cursor.
C12_Witness ==
    /\ Editing /\ Len(input) = 3 /\ len_utf8(input[1]) = 2
    /\ character_index = 2
    /\ input[2] # input[3]

\* The text without its character number index.
Without(text, index) ==
    [i \in 1..(Len(text) - 1) |-> IF i < index THEN text[i] ELSE text[i + 1]]

\* C13: delete_char at cursor 0 changes nothing; at a cursor c > 0 it
\* removes the character of character index c - 1, the others kept in their
\* order, and sets the cursor to c - 1.
C13_DeleteChar ==
    status = "running" =>
    LET s == delete_char(app) IN
    /\ character_index = 0 => s = app
    /\ character_index > 0 =>
          s = [app EXCEPT !.input = Without(input, character_index),
                          !.character_index = character_index - 1]
    /\ input_mode = "Editing" => run(app, Press(Key("Backspace"))) = {s}

\* C13: the cursor stands between two different characters behind a
\* two-byte one: Backspace has a character to remove that is not the last.
C13_Witness ==
    /\ Editing /\ Len(input) = 3 /\ character_index = 2
    /\ len_utf8(input[1]) = 2 /\ input[2] # input[3] /\ input[1] # input[2]
    /\ delete_char(app).input = <<input[1], input[3]>>

\* The App after the characters of text are typed, one enter_char each.
RECURSIVE Typed(_, _)
Typed(self, text) ==
    IF text = <<>> THEN self
    ELSE Typed(enter_char(self, Head(text)), Tail(text))

\* The texts of at most n characters typed.
RECURSIVE TextsUpTo(_)
TextsUpTo(n) ==
    IF n = 0 THEN {<<>>}
    ELSE LET shorter == TextsUpTo(n - 1) IN
         shorter \cup {Append(t, c) : t \in shorter, c \in Chars}

\* C14: from the empty buffer with the cursor 0, typing the characters of a
\* text one at a time in their order gives that text, the cursor at its end.
C14_TypedText ==
    (status = "running" /\ input = <<>> /\ character_index = 0) =>
    \A text \in TextsUpTo(MaxLen):
        LET s == Typed(app, text) IN
        /\ s.input = text
        /\ s.character_index = Len(text)
        /\ s = [app EXCEPT !.input = text, !.character_index = Len(text)]

\* C14: a text of three different characters, a two-byte one among them,
\* with the cursor at its end, as typing it leaves it.
C14_Witness ==
    /\ Editing /\ Len(input) = 3 /\ character_index = 3
    /\ Cardinality({input[i] : i \in 1..3}) = 3
    /\ \E i \in 1..3: len_utf8(input[i]) = 2
    /\ Typed([app EXCEPT !.input = <<>>, !.character_index = 0], input) = app

\* C15: move_cursor_left at cursor 0 and move_cursor_right at the number of
\* characters leave the cursor where it is; otherwise each moves it by
\* one; neither changes the text.
C15_MoveCursor ==
    status = "running" =>
    LET l == move_cursor_left(app)
        r == move_cursor_right(app)
    IN /\ l = [app EXCEPT !.character_index =
                   IF character_index = 0 THEN 0 ELSE character_index - 1]
       /\ r = [app EXCEPT !.character_index =
                   IF character_index = chars_count(input)
                   THEN chars_count(input) ELSE character_index + 1]
       /\ l.input = input /\ r.input = input
       /\ input_mode = "Editing" =>
             /\ run(app, Press(Key("Left"))) = {l}
             /\ run(app, Press(Key("Right"))) = {r}

\* C15: a text with the cursor at its start, where Left stays and Right moves.
C15_Witness ==
    /\ Editing /\ Len(input) >= 2 /\ character_index = 0
    /\ move_cursor_left(app) = app
    /\ move_cursor_right(app).character_index = 1

\* C16: at every cursor from 0 to the number of characters,
\* move_cursor_left and then move_cursor_right gives back the cursor; so
\* does move_cursor_right and then move_cursor_left where the cursor is at
\* neither end of the text.
C16_LeftRightEverywhere ==
    status = "running" =>
    /\ move_cursor_right(move_cursor_left(app)) = app
    /\ (0 < character_index /\ character_index < chars_count(input)) =>
          move_cursor_left(move_cursor_right(app)) = app

\* C16, amended: move_cursor_left and then move_cursor_right gives back the
\* cursor unless it is 0 in a text that is not empty, where it gives 1;
\* move_cursor_right and then move_cursor_left gives back the cursor unless
\* it is at the end of a text that is not empty, where it gives the end
\* less one.
C16_LeftRightAwayFromEnds ==
    status = "running" =>
    LET count == chars_count(input)
        lr == move_cursor_right(move_cursor_left(app))
        rl == move_cursor_left(move_cursor_right(app))
    IN /\ lr = [app EXCEPT !.character_index =
                    IF character_index = 0 /\ count > 0 THEN 1 ELSE character_index]
       /\ rl = [app EXCEPT !.character_index =
                    IF character_index = count /\ count > 0
                    THEN count - 1 ELSE character_index]

\* C16: the cursor stands inside a text, with a character on each side.
C16_Witness ==
    /\ Editing /\ Len(input) = 3 /\ character_index = 1
    /\ move_cursor_left(app).character_index = 0
    /\ move_cursor_right(app).character_index = 2

\* C17: reset_cursor sets the cursor to 0 from any cursor, leaves the text
\* as it is, and a second reset_cursor changes nothing more.
C17_ResetCursor ==
    status = "running" =>
    LET s == reset_cursor(app) IN
    /\ s = [app EXCEPT !.character_index = 0]
    /\ s.input = input
    /\ reset_cursor(s) = s

\* C17: the cursor is two or more characters into the text.
C17_Witness ==
    /\ Editing /\ character_index >= 2
    /\ reset_cursor(app) # app
    /\ reset_cursor(app).input = input

\* The slot that is pending, as submit_message and draw tell it from the
\* fields: the first that is unset.
Slot(first, second) ==
    IF first = None THEN "AwaitingFirst"
    ELSE IF second = None THEN "AwaitingSecond" ELSE "AwaitingOperator"

\* The string m holds the character ch.
Contains(m, ch) == \E i \in 1..Len(m): SubSeq(m, i, i) = ch

\* The step appends one entry to the log, in Editing mode: a submit.
Appends == input_mode = "Editing" /\ Len(messages') = Len(messages) + 1
\* The step empties the log, in Normal mode: clear_messages.
Clears == input_mode = "Normal" /\ messages' = <<>>

\* C18: the pending slot changes only from the first operand to the second,
\* from the second to the operator and from the operator to the first, each
\* by a submit that is accepted, or to the first operand by clear_messages;
\* and a result entry is appended only by a submit with the operator pending.
C18_SlotOrder ==
    [][LET before == Slot(first_number, second_number)
           after == Slot(first_number', second_number')
       IN /\ before # after =>
                \/ /\ before = "AwaitingFirst" /\ after = "AwaitingSecond"
                   /\ Appends
                   /\ StartsWith(Last(messages'), "First number entered: ")
                \/ /\ before = "AwaitingSecond" /\ after = "AwaitingOperator"
                   /\ Appends
                   /\ StartsWith(Last(messages'), "Second number entered: ")
                \/ /\ before = "AwaitingOperator" /\ after = "AwaitingFirst"
                   /\ Appends
                   /\ Contains(Last(messages'), "=")
                \/ /\ after = "AwaitingFirst"
                   /\ Clears
          /\ (Len(messages') > Len(messages) /\ Contains(Last(messages'), "=")) =>
                /\ before = "AwaitingOperator" /\ after = "AwaitingFirst"
                /\ input_mode = "Editing"
          /\ (Appends /\ ~StartsWith(Last(messages'), "Invalid")) => before # after
      ]_vars

\* C18: a result is in the log and the first operand of the next
\* computation is entered: the form went round all three slots and one on.
C18_Witness ==
    /\ status = "running"
    /\ Slot(first_number, second_number) = "AwaitingSecond"
    /\ Len(messages) >= 4
    /\ Contains(messages[Len(messages) - 1], "=")
    /\ StartsWith(Last(messages), "First number entered: ")

\* The log after the step is the log before it with one entry more.
Extended(before, after) ==
    /\ Len(after) = Len(before) + 1
    /\ SubSeq(after, 1, Len(before)) = before

\* C19: every submit leaves the log one entry longer, the entries before it
\* unchanged, and no event but a submit and the clearing key changes the log.
C19_AppendOnly ==
    status = "running" =>
        \A ev \in Events: \A s \in run(app, ev):
            IF input_mode = "Editing" /\ ev = Press(Key("Enter"))
            THEN Extended(messages, s.messages)
            ELSE IF input_mode = "Normal" /\ ev.code = Char("c")
            THEN s.messages = <<>>
            ELSE s.messages = messages

\* C19, where the submit returns: the same, of the states a submit leaves
\* the running program in.
C19_UnlessPanic ==
    status = "running" =>
        \A ev \in Events: \A s \in run(app, ev):
            IF input_mode = "Editing" /\ ev = Press(Key("Enter"))
            THEN s.status = "running" => Extended(messages, s.messages)
            ELSE IF input_mode = "Normal" /\ ev.code = Char("c")
            THEN s.messages = <<>>
            ELSE s.messages = messages

\* In every state between two key events no operator is stored, and a second
\* operand is stored only with a first.
WellFormed(s) ==
    /\ s.operator = None
    /\ s.second_number # None => s.first_number # None

\* C20: every state the running program waits for a key in has the operator
\* unset and the second operand set only if the first is, before and after
\* every event it handles.
C20_FieldsEncodeSlot ==
    status = "running" =>
        /\ WellFormed(app)
        /\ \A ev \in Events: \A s \in run(app, ev):
               s.status = "running" => WellFormed(s)

\* C20: a computation has just been made: its result is the last entry of
\* the log, the operator was stored and the three fields are unset again.
C20_Witness ==
    /\ status = "running"
    /\ messages # <<>> /\ Contains(Last(messages), "=")
    /\ first_number = None /\ second_number = None /\ operator = None

\* The program has stopped: App::run has returned, or it has panicked.
Stopped(s) == s.status # "running"

\* C21: the program stops only on 'q' or Esc received in Normal mode: no key
\* event handled in Editing mode stops it, 'q' and Enter included.
C21_StopsOnlyOnQuit ==
    status = "running" =>
        \A ev \in Events: \A s \in run(app, ev):
            Stopped(s) =>
                /\ input_mode = "Normal"
                /\ ev.type = "Key" /\ ev.code \in {Char("q"), Key("Esc")}

\* C21, of App::run returning: it returns only on 'q' or Esc received in
\* Normal mode, 'q' pressed in Editing mode is inserted into the buffer, and
\* Esc pressed in Editing mode leads to Normal mode, where 'q' stops the
\* program.
C21_ReturnsOnlyOnQuit ==
    status = "running" =>
        /\ \A ev \in Events: \A s \in run(app, ev):
               s.status = "exited" =>
                   /\ input_mode = "Normal"
                   /\ ev.type = "Key" /\ ev.code \in {Char("q"), Key("Esc")}
        /\ input_mode = "Editing" =>
               /\ \A s \in run(app, Press(Char("q"))):
                      /\ s.status = "running"
                      /\ s.input = PutIn(input, character_index, "q")
               /\ \A s \in run(app, Press(Key("Esc"))):
                      /\ s.status = "running" /\ s.input_mode = "Normal"
                      /\ \A u \in run(s, Press(Char("q"))): u.status = "exited"
        /\ input_mode = "Normal" =>
               \A u \in run(app, Press(Char("q"))): u.status = "exited"

\* The keys that edit the text: a character, Backspace, Left and Right.
EditKeys == {Char(c) : c \in KeyChars} \cup {Key("Backspace"), Key("Left"), Key("Right")}

\* The step from the App to s leaves the form, the log and the mode alone.
KeepsForm(s) ==
    /\ s.first_number = first_number
    /\ s.second_number = second_number
    /\ s.operator = operator
    /\ s.messages = messages
    /\ s.input_mode = input_mode

\* C23: a character typed, Backspace, Left and Right in Editing mode never
\* change first_number, second_number, operator, the log or the mode; and
\* 'c' in Normal mode never changes the text or the cursor.
C23_FrameEffects ==
    status = "running" =>
        /\ input_mode = "Editing" =>
               \A code \in EditKeys: \A s \in run(app, Press(code)): KeepsForm(s)
        /\ input_mode = "Normal" =>
               \A kind \in Kinds: \A s \in run(app, KeyEvent(Char("c"), kind)):
                   /\ s.input = input
                   /\ s.character_index = character_index

\* C23: Editing mode with an operand entered, a text in the box and the cursor
\* inside it, where each of the four editing keys changes the text or the
\* cursor; or Normal mode with a text left in the box, the cursor behind it,
\* and a log to clear.
C23_Witness ==
    /\ status = "running"
    /\ Len(input) >= 2
    /\ messages # <<>>
    /\ \/ /\ input_mode = "Editing"
          /\ first_number # None
          /\ character_index > 0 /\ character_index < Len(input)
          /\ \A code \in EditKeys: run(app, Press(code)) # {app}
       \/ /\ input_mode = "Normal"
          /\ character_index > 0
          /\ run(app, Press(Char("c"))) # {app}

\* --------------------------------------------- the form, operand by operand
\* Texts typed into the empty box: numbers that differ, the operators, and a
\* text that is neither.
FormTexts ==
    {t \in {<<"2">>, <<"-", "7">>, <<"0">>, <<"+">>, <<"-">>, <<"/">>, <<"q">>} :
        Len(t) <= MaxLen}

\* Editing mode, the characters of a text pressed one after the other with
\* the box empty: one enter_char for each.
EditingText ==
    /\ status = "running"
    /\ input_mode = "Editing"
    /\ input = <<>>
    /\ \E text \in FormTexts: Becomes(Typed(app, text))

NextTexts ==
    \/ NormalEdit
    \/ NormalClear
    \/ EditingText
    \/ EditingEnter
    \/ EditingEsc

\* The key-event machine, the characters of a text typed in one step.
SpecTexts == Init /\ [][NextTexts]_vars

\* The numbers the texts of FormTexts are.
FormOperands == {parse_i32(t)[1] : t \in {u \in FormTexts : parse_i32(u) # None}}

\* The entry of the log at i is the result entry of first op second, and the
\* log has "First number entered: first" before it and "Second number
\* entered: second" between the two.
OperandsLogged(i, first, second) ==
    \E j \in 1..(i - 1), k \in 1..(i - 1):
        /\ j < k
        /\ messages[j] = "First number entered: " \o fmt_i32(first)
        /\ messages[k] = "Second number entered: " \o fmt_i32(second)

\* C22: every result entry "a op b = r" of the log has an entry "First number
\* entered: a" before it and an entry "Second number entered: b" between the
\* two; and while first_number (second_number) is n the log has the entry
\* "First number entered: n" ("Second number entered: n").
C22_LogHoldsOperands ==
    /\ \A i \in 1..Len(messages):
           Contains(messages[i], "=") =>
               \E first \in FormOperands, second \in FormOperands,
                  op \in {"+", "-", "/"}:
                   /\ IsResultEntry(messages[i], first, op, second)
                   /\ OperandsLogged(i, first, second)
    /\ first_number # None =>
           \E j \in 1..Len(messages):
               messages[j] = "First number entered: " \o fmt_i32(first_number[1])
    /\ second_number # None =>
           \E k \in 1..Len(messages):
               messages[k] = "Second number entered: " \o fmt_i32(second_number[1])

\* C22: the log ends with the result of a computation on two operands that
\* differ, and the first operand of the next one is entered and differs from
\* both.
C22_Witness ==
    /\ status = "running"
    /\ Len(messages) >= 4
    /\ IsResultEntry(messages[Len(messages) - 1], -7, "-", 2)
    /\ first_number = Some(0)

====
